---- MODULE Spec2Model ----
(***************************************************************************)
(* Model of photos2.py: the photo de-duplication pipeline run by main().   *)
(*                                                                         *)
(*   setup_logging -> threshold check -> Photo.scan_directory ->           *)
(*   Photo.find_unique_images (one step per file) ->                       *)
(*   Photo.process_unique_files (one step per table entry) -> summary      *)
(*                                                                         *)
(* The environment of one command line is drawn in Init: the files of the  *)
(* input directory with what PIL/imagehash make of each, the state of the  *)
(* output directory and the arguments.  A --copy command line may be run   *)
(* again (Rerun) on what the previous run left on disk.                    *)
(*                                                                         *)
(* The output directory is taken to lie outside the input directory.       *)
(***************************************************************************)
EXTENDS Integers, Sequences, FiniteSets, TLC

VARIABLES
    args,           \* [copy, hash_size, threshold]: argparse result (main, 159-168)
    inputExists,    \* os.path.exists(args.input_dir)
    inputDir,       \* files now in the input directory, in os.walk order
    outExists,      \* os.path.exists(args.output_dir)
    outCreatable,   \* would os.makedirs(args.output_dir) succeed
    outFiles,       \* output directory: file name -> content
    pc,             \* main's position
    exit_code,      \* -1 while running, else the process's exit status
    files,          \* scan_directory's result (main's `files`)
    i,              \* find_unique_images: enumerate index of the next file
    unique_images,  \* the dict being built, as its (key, value) items in order
    decisions,      \* per processed file: what find_unique_images did with it
    j,              \* process_unique_files: enumerate index of the next entry
    placed,         \* per table entry handled: source, destination, outcome
    run,            \* number of the current run of the command line
    atStart,        \* the disk as the current run found it
    failures,       \* placements the environment has made fail so far
    prev            \* what the previous run selected and placed

vars == << args, inputExists, inputDir, outExists, outCreatable, outFiles, pc,
           exit_code, files, i, unique_images, decisions, j, placed, run,
           atStart, failures, prev >>

----------------------------------------------------------------------------
(* Bounds of the model *)

MaxFiles == 3        \* files in the input directory
MaxRuns == 2         \* runs of the same command line
MaxFailures == 1     \* placements the environment lets fail

HashSizes == {3}                     \* --hash-size values tried
Thresholds == {-1, 0, 50, 100, 101}   \* --threshold values tried

----------------------------------------------------------------------------
(* Bit vectors and their hexadecimal strings *)

RECURSIVE Pow2(_)
Pow2(n) == IF n = 0 THEN 1 ELSE 2 * Pow2(n - 1)

\* The bit vector of length L whose value, most significant bit first, is v.
BitsOf(v, L) == [k \in 1..L |-> (v \div Pow2(L - k)) % 2]

RECURSIVE BitsValue(_)
BitsValue(bits) ==
    IF Len(bits) = 0 THEN 0
    ELSE 2 * BitsValue(SubSeq(bits, 1, Len(bits) - 1)) + bits[Len(bits)]

HexDigits == << "0", "1", "2", "3", "4", "5", "6", "7",
                "8", "9", "a", "b", "c", "d", "e", "f" >>

\* str(ImageHash): the bits read as one binary number, written in lower-case
\* hexadecimal, zero-padded on the left to ceil(L / 4) characters.
HashStr(bits) ==
    LET width == (Len(bits) + 3) \div 4
        v == BitsValue(bits)
    IN  [k \in 1..width |-> HexDigits[((v \div Pow2(4 * (width - k))) % 16) + 1]]

\* Number of positions at which two equal-length sequences differ.
DiffCount(s, t) == Cardinality({k \in 1..Len(s) : s[k] # t[k]})

\* A similarity is the rational num / den, den > 0.
calculate_similarity(hash1, hash2) ==
    IF Len(hash1) # Len(hash2)
    THEN [num |-> 0, den |-> 1]
    ELSE [num |-> 100 * Len(hash1) - DiffCount(hash1, hash2) * 100,
          den |-> Len(hash1)]

\* similarity >= threshold, for an integer threshold
SimGE(sim, threshold) == sim.num >= threshold * sim.den

----------------------------------------------------------------------------
(* File names, paths and file contents *)

\* A file name <base>_<k1>_<k2>...<ext>: os.path.splitext gives
\* (<base>_<k1>..., <ext>), and the suffixes are the "_<counter>" parts.
PhotoJpg == [base |-> "photo", sfx |-> << >>, ext |-> ".jpg"]
Photo1Jpg == [base |-> "photo", sfx |-> << 1 >>, ext |-> ".jpg"]

\* The names given to the files of the input directory, by position: the
\* k-th file lies in its own sub-directory k, so equal names are possible.
NamePatterns ==
    { [k \in 1..(MaxFiles + 1) |-> PhotoJpg],
      [k \in 1..(MaxFiles + 1) |-> IF k = 1 THEN Photo1Jpg ELSE PhotoJpg] }

SUPPORTED_FORMATS == {".jpg", ".jpeg", ".png", ".gif", ".bmp"}

\* What Image.open + imagehash.average_hash(img, hash_size) make of a file:
\* ok = FALSE is UnidentifiedImageError, else bits is the hash_size^2 bit
\* fingerprint (hash_size >= 2, as average_hash requires).
Corrupt == [ok |-> FALSE, bits |-> << >>]
Decoded(v, L) == [ok |-> TRUE, bits |-> BitsOf(v, L)]
ImagePool(hash_size) ==
    LET L == hash_size * hash_size
    IN  {Corrupt} \cup {Decoded(v, L) : v \in {0, 1, Pow2(L) - 1}}

PathOf(f) == [dir |-> f.dir, name |-> f.name]
basename(path) == path.name

\* The log file of run r (its time stamp is r); never an image name.
LogName(r) == [base |-> "photo_dedup", sfx |-> << r >>, ext |-> ".log"]
LogContent(r) == [dir |-> 0, name |-> LogName(r), img |-> Corrupt]
\* A file that was in the output directory before the first run.
OldContent == [dir |-> 0, name |-> PhotoJpg, img |-> Corrupt]

----------------------------------------------------------------------------
(* Photo.find_unique_images: the loop body *)

\* d[key] = value on an insertion-ordered dict: an existing key keeps its
\* position and takes the new value, a new key is appended.
DictSet(d, key, value) ==
    IF \E n \in 1..Len(d) : d[n].hash = key
    THEN [n \in 1..Len(d) |->
             IF d[n].hash = key THEN [hash |-> key, path |-> value] ELSE d[n]]
    ELSE Append(d, [hash |-> key, path |-> value])

\* The same test with > for >=.
SimilarEnoughStrict(hash_value, existing_hash, threshold) ==
    LET sim == calculate_similarity(hash_value, existing_hash)
    IN  sim.num > threshold * sim.den

\* Line 88: the test that makes the candidate a duplicate of existing_hash.
SimilarEnough(hash_value, existing_hash, threshold) ==
    SimGE(calculate_similarity(hash_value, existing_hash), threshold)

\* The inner loop leaving after its first iteration, similar or not.
BreakIndexFirstOnly(d, hash_value, threshold) ==
    IF Len(d) > 0 /\ SimilarEnough(hash_value, d[1].hash, threshold) THEN 1 ELSE 0

\* Lines 87-90: index of the entry at which the inner loop breaks, 0 if it
\* runs to the end.
BreakIndex(d, hash_value, threshold) ==
    LET hits == {n \in 1..Len(d) : SimilarEnough(hash_value, d[n].hash, threshold)}
    IN  IF hits = {} THEN 0 ELSE CHOOSE n \in hits : \A m \in hits : n <= m

\* Lines 80-103 for one file: the dict afterwards and what was done.
\*   skipped   - decode/fingerprint raised, the file is passed over
\*   discarded - a similar entry was found, nothing stored
\*   accepted  - stored under a new key
\*   replaced  - stored under a key already present (its path overwritten)
ProcessFile(d, f, threshold) ==
    IF ~f.img.ok
    THEN [dict |-> d, outcome |-> "skipped", hash |-> << >>, compared |-> << >>]
    ELSE LET hash_value == HashStr(f.img.bits)
             b == BreakIndex(d, hash_value, threshold)
             seen == IF threshold > 0
                     THEN [n \in 1..(IF b = 0 THEN Len(d) ELSE b) |-> d[n].path]
                     ELSE << >>
             store == threshold <= 0 \/ b = 0
             had == \E n \in 1..Len(d) : d[n].hash = hash_value
         IN  [dict |-> IF store THEN DictSet(d, hash_value, PathOf(f)) ELSE d,
              outcome |-> IF ~store THEN "discarded"
                          ELSE IF had THEN "replaced" ELSE "accepted",
              hash |-> hash_value,
              compared |-> seen]

----------------------------------------------------------------------------
(* Photo.process_unique_files: the destination of one file *)

\* f"{base}_{counter}{ext}"
Renamed(filename, counter) == [filename EXCEPT !.sfx = Append(@, counter)]

\* Lines 143-147: the counter at which the while loop stops.
RECURSIVE FreeCounter(_, _, _)
FreeCounter(filename, names, counter) ==
    IF Renamed(filename, counter) \in names
    THEN FreeCounter(filename, names, counter + 1)
    ELSE counter

\* The conflict handled by an `if` in place of the `while`: one rename, not
\* checked again.
DestPathRenamedOnce(filename, names) ==
    IF filename \in names THEN Renamed(filename, 1) ELSE filename

\* Lines 137-147: dest_path, as a name inside the output directory.
DestPath(filename, names) ==
    IF filename \in names
    THEN Renamed(filename, FreeCounter(filename, names, 1))
    ELSE filename

\* shutil.move chosen whatever --copy says.
RemovesSourceAlways(copy) == TRUE

\* Line 131: does the operation remove the source (shutil.move) or not
\* (shutil.copy2).
RemovesSource(copy) == ~copy

\* The check with its lower limit forgotten.
ThresholdRejectedAboveOnly(threshold) == threshold > 100

\* Line 176: the threshold main refuses.
ThresholdRejected(threshold) == threshold < 0 \/ threshold > 100

\* The existence check never firing.
InputMissingIgnored(exists) == FALSE

\* Lines 48-50: scan_directory's fatal precondition.
InputMissing(exists) == ~exists

\* Lines 53-57: the files os.walk yields whose extension is supported (the
\* names drawn in Init are lower-case already, so lower() changes nothing).
IsSupported(f) == f.name.ext \in SUPPORTED_FORMATS
\* Removal by file name in place of the full path.
WithoutByName(seq, path) ==
    LET Keep(f) == f.name # path.name IN SelectSeq(seq, Keep)

Without(seq, path) ==
    LET Keep(f) == PathOf(f) # path IN SelectSeq(seq, Keep)

----------------------------------------------------------------------------
(* Initial states *)

NoPrev == [selection |-> << >>, placed |-> << >>, exit_code |-> -1]

Init ==
    /\ args \in [copy : BOOLEAN, hash_size : HashSizes, threshold : Thresholds]
    /\ inputExists \in BOOLEAN
    /\ \E n \in 0..MaxFiles : \E names \in NamePatterns :
         \E imgs \in [1..n -> ImagePool(args.hash_size)] :
           inputDir = IF inputExists
                      THEN [k \in 1..n |-> [dir |-> k, name |-> names[k], img |-> imgs[k]]]
                      ELSE << >>
    /\ \/ outExists = FALSE /\ outCreatable \in BOOLEAN /\ outFiles = << >>
       \/ outExists = TRUE /\ outCreatable = TRUE
          /\ outFiles = (PhotoJpg :> OldContent)
    /\ pc = "setup_logging"
    /\ exit_code = -1
    /\ files = << >>
    /\ i = 1
    /\ unique_images = << >>
    /\ decisions = << >>
    /\ j = 1
    /\ placed = << >>
    /\ run = 1
    /\ atStart = [inputDir |-> inputDir, outExists |-> outExists, outFiles |-> outFiles]
    /\ failures = 0
    /\ prev = NoPrev

----------------------------------------------------------------------------
(* main, step by step *)

Exit(code) == pc' = "exit" /\ exit_code' = code

\* Lines 11-27, called at line 171: the output directory is created if it is
\* missing and the log file is opened in it.  A makedirs that raises is not
\* caught: the interpreter ends with status 1.
setup_logging ==
    /\ pc = "setup_logging"
    /\ IF ~outExists /\ ~outCreatable
       THEN Exit(1) /\ UNCHANGED << outExists, outFiles >>
       ELSE /\ outExists' = TRUE
            /\ outFiles' = (LogName(run) :> LogContent(run)) @@ outFiles
            /\ pc' = "validate"
            /\ UNCHANGED exit_code
    /\ UNCHANGED << args, inputExists, inputDir, outCreatable, files, i,
                    unique_images, decisions, j, placed, run, atStart, failures, prev >>

\* Lines 176-178.
ValidateThreshold ==
    /\ pc = "validate"
    /\ IF ThresholdRejected(args.threshold)
       THEN Exit(1)
       ELSE pc' = "scan" /\ UNCHANGED exit_code
    /\ UNCHANGED << args, inputExists, inputDir, outExists, outCreatable, outFiles,
                    files, i, unique_images, decisions, j, placed, run, atStart,
                    failures, prev >>

\* Lines 48-62, called at line 186; then find_unique_images starts (76-77).
scan_directory ==
    /\ pc = "scan"
    /\ IF InputMissing(inputExists)
       THEN Exit(1) /\ UNCHANGED << files, i, unique_images, decisions >>
       ELSE /\ files' = SelectSeq(inputDir, IsSupported)
            /\ i' = 1
            /\ unique_images' = << >>
            /\ decisions' = << >>
            /\ pc' = "find"
            /\ UNCHANGED exit_code
    /\ UNCHANGED << args, inputExists, inputDir, outExists, outCreatable, outFiles,
                    j, placed, run, atStart, failures, prev >>

\* The loop with no handler around its body: a file that cannot be decoded
\* ends the process.
FindStepUnhandled ==
    /\ pc = "find"
    /\ i <= Len(files)
    /\ LET r == ProcessFile(unique_images, files[i], args.threshold)
       IN  /\ unique_images' = r.dict
           /\ decisions' = Append(decisions,
                 [path |-> PathOf(files[i]), hash |-> r.hash,
                  outcome |-> r.outcome, compared |-> r.compared])
           /\ IF r.outcome = "skipped" THEN Exit(1) ELSE UNCHANGED << pc, exit_code >>
    /\ i' = i + 1
    /\ UNCHANGED << args, inputExists, inputDir, outExists, outCreatable, outFiles,
                    files, j, placed, run, atStart, failures, prev >>

\* Lines 79-103: one iteration of find_unique_images' loop.
FindStep ==
    /\ pc = "find"
    /\ i <= Len(files)
    /\ LET r == ProcessFile(unique_images, files[i], args.threshold)
       IN  /\ unique_images' = r.dict
           /\ decisions' = Append(decisions,
                 [path |-> PathOf(files[i]), hash |-> r.hash,
                  outcome |-> r.outcome, compared |-> r.compared])
    /\ i' = i + 1
    /\ UNCHANGED << args, inputExists, inputDir, outExists, outCreatable, outFiles,
                    pc, exit_code, files, j, placed, run, atStart, failures, prev >>

\* Line 105 and lines 123-134: find_unique_images returns and
\* process_unique_files is entered; it creates the output directory if that
\* is (still) missing and exits with status 1 if it cannot.
ProcessUniqueFilesEnter ==
    /\ pc = "find"
    /\ i > Len(files)
    /\ IF ~outExists /\ ~outCreatable
       THEN Exit(1) /\ UNCHANGED << outExists, j >>
       ELSE /\ outExists' = TRUE
            /\ j' = 1
            /\ pc' = "place"
            /\ UNCHANGED exit_code
    /\ UNCHANGED << args, inputExists, inputDir, outCreatable, outFiles, files, i,
                    unique_images, decisions, placed, run, atStart, failures, prev >>

\* Lines 135-154: one iteration of process_unique_files' loop.  The
\* operation raises if the source is gone and may raise otherwise (the
\* environment decides); the exception is caught and logged, and nothing has
\* been written then.
PlaceStep ==
    /\ pc = "place"
    /\ j <= Len(unique_images)
    /\ LET filepath == unique_images[j].path
           dest == DestPath(basename(filepath), DOMAIN outFiles)
           present == {n \in 1..Len(inputDir) : PathOf(inputDir[n]) = filepath}
       IN  \E ok \in BOOLEAN :
             /\ present = {} => ~ok
             /\ (~ok /\ present # {}) => failures < MaxFailures
             /\ failures' = IF ok THEN failures ELSE failures + 1
             /\ placed' = Append(placed, [src |-> filepath, dest |-> dest, ok |-> ok])
             /\ IF ok
                THEN /\ outFiles' = (dest :> inputDir[CHOOSE n \in present : TRUE])
                                      @@ outFiles
                     /\ inputDir' = IF RemovesSource(args.copy)
                                    THEN Without(inputDir, filepath)
                                    ELSE inputDir
                ELSE UNCHANGED << outFiles, inputDir >>
    /\ j' = j + 1
    /\ UNCHANGED << args, inputExists, outExists, outCreatable, pc, exit_code, files,
                    i, unique_images, decisions, run, atStart, prev >>

\* Line 190: the loop is over, the summary is logged and main returns.
Summary ==
    /\ pc = "place"
    /\ j > Len(unique_images)
    /\ Exit(0)
    /\ UNCHANGED << args, inputExists, inputDir, outExists, outCreatable, outFiles,
                    files, i, unique_images, decisions, j, placed, run, atStart,
                    failures, prev >>

\* A --copy command line is run once more on what is on disk now.
Rerun ==
    /\ pc = "exit"
    /\ args.copy
    /\ run < MaxRuns
    /\ run' = run + 1
    /\ prev' = [selection |-> unique_images, placed |-> placed, exit_code |-> exit_code]
    /\ atStart' = [inputDir |-> inputDir, outExists |-> outExists, outFiles |-> outFiles]
    /\ pc' = "setup_logging"
    /\ exit_code' = -1
    /\ files' = << >>
    /\ i' = 1
    /\ unique_images' = << >>
    /\ decisions' = << >>
    /\ j' = 1
    /\ placed' = << >>
    /\ UNCHANGED << args, inputExists, inputDir, outExists, outCreatable, outFiles,
                    failures >>

Next ==
    \/ setup_logging
    \/ ValidateThreshold
    \/ scan_directory
    \/ FindStep
    \/ ProcessUniqueFilesEnter
    \/ PlaceStep
    \/ Summary
    \/ Rerun

Spec == Init /\ [][Next]_vars

----------------------------------------------------------------------------
(* Vocabulary of the properties *)

Processed == 1..Len(decisions)
Accepted(n) == decisions[n].outcome = "accepted"
AcceptedBefore(n) == {m \in 1..(n - 1) : decisions[m].outcome = "accepted"}
Sim(n, m) == calculate_similarity(decisions[n].hash, decisions[m].hash)
RepPaths == {unique_images[n].path : n \in 1..Len(unique_images)}
OkFile(f) == f.img.ok
InRange(threshold) == threshold >= 0 /\ threshold <= 100
Contains(seq, x) == \E n \in 1..Len(seq) : seq[n] = x
Finished == pc = "exit" /\ exit_code = 0

\* The decisions that stored a new key, as dict items, in order.
RECURSIVE AcceptedItems(_)
AcceptedItems(ds) ==
    IF Len(ds) = 0 THEN << >>
    ELSE LET d == ds[Len(ds)]
             front == AcceptedItems(SubSeq(ds, 1, Len(ds) - 1))
         IN  IF d.outcome = "accepted"
             THEN Append(front, [hash |-> d.hash, path |-> d.path])
             ELSE front

\* The dict find_unique_images builds from a whole list.
RECURSIVE TableOf(_, _)
TableOf(fs, threshold) ==
    IF Len(fs) = 0 THEN << >>
    ELSE ProcessFile(TableOf(SubSeq(fs, 1, Len(fs) - 1), threshold),
                     fs[Len(fs)], threshold).dict

\* Names in the output directory just before the n-th placement of this run.
NamesAt(n) ==
    DOMAIN atStart.outFiles \cup {LogName(run)}
        \cup {placed[m].dest : m \in {k \in 1..(n - 1) : placed[k].ok}}

----------------------------------------------------------------------------
(* C1 *)

\* C1: in exact mode (threshold = 0) the table holds exactly one entry per
\* distinct fingerprint among the fingerprinted files processed so far, and
\* the path stored under a fingerprint is the FIRST file that produced it.
C1_FirstOccurrenceKept ==
    args.threshold = 0 =>
      LET done == {n \in Processed : OkFile(files[n])}
          fp(n) == HashStr(files[n].img.bits)
      IN  /\ \A n \in done :
               Cardinality({k \in 1..Len(unique_images) :
                               unique_images[k].hash = fp(n)}) = 1
          /\ \A k \in 1..Len(unique_images) :
               \E n \in done :
                 /\ unique_images[k].hash = fp(n)
                 /\ \A m \in done : fp(m) = fp(n) => n <= m
                 /\ unique_images[k].path = PathOf(files[n])

----------------------------------------------------------------------------
(* C2 *)

\* C2 as stated: when the input directory does not exist the run ends with
\* status 1 and the output directory is as the run found it (not created,
\* nothing written in it).
C2_OutputUntouched ==
    (pc = "exit" /\ ~inputExists) =>
      /\ exit_code = 1
      /\ outExists = atStart.outExists
      /\ outFiles = atStart.outFiles

\* C2 amended: when the input directory does not exist the run ends with
\* status 1 before any file is scanned, fingerprinted, moved or copied; the
\* output directory is changed by setup_logging alone, which creates it if
\* missing and adds the run's log file, and no file already there is altered.
C2_OnlyLoggingBeforeExit ==
    ~inputExists =>
      /\ pc \in {"setup_logging", "validate", "scan", "exit"}
      /\ pc = "exit" => exit_code = 1
      /\ files = << >> /\ decisions = << >> /\ placed = << >>
      /\ DOMAIN outFiles \subseteq DOMAIN atStart.outFiles \cup {LogName(run)}
      /\ \A name \in DOMAIN atStart.outFiles \ {LogName(run)} :
           outFiles[name] = atStart.outFiles[name]

C2_Witness ==
    /\ pc = "exit" /\ exit_code = 1
    /\ ~inputExists
    /\ InRange(args.threshold)
    /\ ~atStart.outExists /\ outExists
    /\ LogName(run) \in DOMAIN outFiles

----------------------------------------------------------------------------
(* C7 *)

\* C7: with a threshold outside [0, 100] main ends with status 1 without
\* scanning the input directory, starting find_unique_images or placing a
\* file; find_unique_images and process_unique_files only ever run with
\* 0 <= threshold <= 100.
C7_ThresholdValidatedFirst ==
    /\ ~InRange(args.threshold) =>
         /\ pc \in {"setup_logging", "validate", "exit"}
         /\ pc = "exit" => exit_code = 1
         /\ files = << >> /\ decisions = << >> /\ placed = << >>
         /\ inputDir = atStart.inputDir
    /\ pc \in {"find", "place"} => InRange(args.threshold)

C7_Witness ==
    /\ pc = "exit" /\ exit_code = 1
    /\ args.threshold < 0
    /\ inputExists /\ Len(inputDir) > 1
    /\ LogName(run) \in DOMAIN outFiles

----------------------------------------------------------------------------
(* C3 *)

\* C3: in near-duplicate mode (threshold > 0) the files are processed in list
\* order; a fingerprinted file is discarded exactly when some representative
\* accepted before it has similarity >= threshold with it, and otherwise it
\* becomes a new representative; the table is the accepted files in order
\* (none removed, no path replaced); a file is compared only with
\* representatives accepted before it, never with a discarded file.
C3_GreedyAgainstRepresentatives ==
    args.threshold > 0 =>
      /\ Len(decisions) = i - 1
      /\ \A n \in Processed :
           /\ decisions[n].path = PathOf(files[n])
           /\ decisions[n].outcome = "skipped" <=> ~OkFile(files[n])
           /\ OkFile(files[n]) =>
                /\ decisions[n].hash = HashStr(files[n].img.bits)
                /\ decisions[n].outcome \in {"accepted", "discarded"}
                /\ decisions[n].outcome = "discarded" <=>
                     \E m \in AcceptedBefore(n) : SimGE(Sim(n, m), args.threshold)
                /\ \A k \in 1..Len(decisions[n].compared) :
                     \E m \in AcceptedBefore(n) :
                       decisions[m].path = decisions[n].compared[k]
      /\ unique_images = AcceptedItems(decisions)

C3_Witness ==
    /\ args.threshold > 0
    /\ pc = "place"
    /\ Len(unique_images) >= 2
    /\ \E n \in Processed : decisions[n].outcome = "discarded"
    /\ \E n \in Processed : \E m \in 1..(n - 1) :
         decisions[m].outcome = "discarded" /\ decisions[n].outcome = "accepted"

----------------------------------------------------------------------------
(* C10 *)

\* C10: in near-duplicate mode, after every step of the loop, two distinct
\* representatives have similarity < threshold with each other, and every
\* fingerprinted file processed so far that is not a representative has
\* similarity >= threshold with a representative accepted before it.
C10_RepresentativesApart ==
    args.threshold > 0 =>
      /\ \A a, b \in 1..Len(unique_images) :
           a # b => ~SimGE(calculate_similarity(unique_images[a].hash,
                                                 unique_images[b].hash),
                           args.threshold)
      /\ \A n \in Processed :
           (OkFile(files[n]) /\ PathOf(files[n]) \notin RepPaths) =>
              \E m \in 1..(n - 1) :
                 /\ PathOf(files[m]) \in RepPaths
                 /\ OkFile(files[m])
                 /\ SimGE(calculate_similarity(HashStr(files[n].img.bits),
                                               HashStr(files[m].img.bits)),
                          args.threshold)

C10_Witness ==
    /\ args.threshold > 0 /\ args.threshold < 100
    /\ pc = "find"
    /\ Len(unique_images) >= 2
    /\ \E n \in Processed :
         /\ decisions[n].outcome = "discarded"
         /\ \A m \in AcceptedBefore(n) : decisions[m].hash # decisions[n].hash

----------------------------------------------------------------------------
(* C4 *)

\* C4: whenever the clusterer compares a candidate with a representative,
\* the score it uses equals 100 - d * 100 / L, where L is the bit length of
\* the two fingerprints and d the number of bit positions at which they
\* differ.
C4_SimilarityIsBitAgreement ==
    \A n \in Processed : \A m \in AcceptedBefore(n) :
      (OkFile(files[n]) /\ Contains(decisions[n].compared, decisions[m].path)) =>
         LET a == files[n].img.bits
             b == files[m].img.bits
             L == Len(a)
             d == DiffCount(a, b)
             score == Sim(n, m)
         IN  score.num * L = (100 * L - d * 100) * score.den

----------------------------------------------------------------------------
(* C5 *)

\* C5: a run that passes the fatal checks always completes: a file that
\* fails to decode is skipped and every later file is still processed, so
\* the table is the one built from the list with the failing files removed;
\* every representative is handed to placement, in order, whether or not an
\* earlier placement failed, and each placement that succeeded put its file
\* in the output directory.
C5_PerFileErrorsIsolated ==
    /\ pc = "exit" /\ inputExists /\ InRange(args.threshold) /\ outExists
         => exit_code = 0
    /\ pc \in {"find", "place"} \/ Finished =>
         /\ Len(decisions) = i - 1
         /\ unique_images =
              TableOf(SelectSeq(SubSeq(files, 1, i - 1), OkFile), args.threshold)
    /\ pc = "place" \/ Finished =>
         /\ i = Len(files) + 1
         /\ Len(placed) = j - 1
         /\ \A n \in 1..Len(placed) :
              /\ placed[n].src = unique_images[n].path
              /\ placed[n].ok =>
                   /\ placed[n].dest \in DOMAIN outFiles
                   /\ PathOf(outFiles[placed[n].dest]) = placed[n].src
    /\ Finished => Len(placed) = Len(unique_images)

\* One corrupt file before two valid distinct images gives a table of size
\* 2, and a failed placement is followed by a successful one.
C5_Witness ==
    /\ Finished
    /\ Len(files) = 3
    /\ ~OkFile(files[1])
    /\ Len(unique_images) = 2
    /\ ~placed[1].ok /\ placed[2].ok

----------------------------------------------------------------------------
(* C6 *)

\* C6: a file placed successfully lands under its own name if that name is
\* free at that moment, and otherwise under <base>_<k><ext> for the smallest
\* k >= 1 whose name is free at that moment; the destinations of one run
\* are pairwise distinct and no file the run found in the output directory
\* (nor the run's log file) is overwritten.
C6_SmallestFreeSuffix ==
    /\ \A n \in 1..Len(placed) :
         placed[n].ok =>
           LET filename == basename(placed[n].src)
               taken == NamesAt(n)
           IN  /\ placed[n].dest \notin taken
               /\ filename \notin taken => placed[n].dest = filename
               /\ filename \in taken =>
                    \E k \in 1..(Cardinality(taken) + 1) :
                      /\ placed[n].dest = Renamed(filename, k)
                      /\ \A q \in 1..(k - 1) : Renamed(filename, q) \in taken
    /\ \A n, m \in 1..Len(placed) :
         (n # m /\ placed[n].ok /\ placed[m].ok) => placed[n].dest # placed[m].dest
    /\ pc \in {"place", "exit"} =>
         \A name \in DOMAIN atStart.outFiles :
            name \in DOMAIN outFiles /\ outFiles[name] = atStart.outFiles[name]
    /\ pc = "place" =>
         LogName(run) \in DOMAIN outFiles /\ outFiles[LogName(run)] = LogContent(run)

\* Two representatives named photo.jpg land as photo.jpg and photo_1.jpg,
\* and a third one as photo_2.jpg.
C6_Witness ==
    /\ Finished
    /\ Len(placed) = 3
    /\ \A n \in 1..3 : placed[n].ok /\ basename(placed[n].src) = PhotoJpg
    /\ placed[1].dest = PhotoJpg
    /\ placed[2].dest = Renamed(PhotoJpg, 1)
    /\ placed[3].dest = Renamed(PhotoJpg, 2)

----------------------------------------------------------------------------
(* C8 *)

Placement(f) ==
    {n \in 1..Len(placed) : placed[n].ok /\ placed[n].src = PathOf(f)}

\* C8: in copy mode the input directory stays as the run found it; in move
\* mode a scanned file is missing from its place only if it is a
\* representative whose placement succeeded, and it is then in the output
\* directory at its destination; in both modes the files still in the input
\* directory are unchanged and every file the run found there is still in
\* the input directory or in the output directory.
C8_OriginalsUntouched ==
    /\ args.copy => inputDir = atStart.inputDir
    /\ \A n \in 1..Len(files) :
         ~Contains(inputDir, files[n]) =>
            /\ ~args.copy
            /\ PathOf(files[n]) \in RepPaths
            /\ \E q \in Placement(files[n]) : outFiles[placed[q].dest] = files[n]
    /\ \A n \in 1..Len(inputDir) : Contains(atStart.inputDir, inputDir[n])
    /\ \A n \in 1..Len(atStart.inputDir) :
         \/ Contains(inputDir, atStart.inputDir[n])
         \/ \E name \in DOMAIN outFiles : outFiles[name] = atStart.inputDir[n]

\* A move run that moved one representative away and left a discarded
\* duplicate and a representative whose placement failed where they were.
C8_Witness ==
    /\ Finished /\ ~args.copy
    /\ Len(files) = 3
    /\ \E n \in 1..Len(decisions) :
         decisions[n].outcome = "discarded" /\ Contains(inputDir, files[n])
    /\ \E n \in 1..Len(placed) : \E k \in 1..Len(files) :
         placed[n].ok /\ placed[n].src = PathOf(files[k]) /\ ~Contains(inputDir, files[k])
    /\ \E n \in 1..Len(placed) : ~placed[n].ok

----------------------------------------------------------------------------
(* C9 *)

\* C9: with --copy, a run that completes after a completed run of the same
\* command line selects the same representatives for the same fingerprints,
\* in the same order; its destinations are names the earlier run did not
\* leave in the output directory, and the files the earlier run placed are
\* still there.
C9_CopyRerunSelectsTheSame ==
    (run >= 2 /\ args.copy /\ prev.exit_code = 0 /\ Finished) =>
      /\ unique_images = prev.selection
      /\ \A n \in 1..Len(placed) :
           /\ placed[n].src = prev.placed[n].src
           /\ placed[n].ok => placed[n].dest \notin DOMAIN atStart.outFiles
      /\ \A n \in 1..Len(prev.placed) :
           prev.placed[n].ok =>
              /\ prev.placed[n].dest \in DOMAIN outFiles
              /\ PathOf(outFiles[prev.placed[n].dest]) = prev.placed[n].src

\* The second run placed photo.jpg as photo_1.jpg beside the first run's
\* photo.jpg.
C9_Witness ==
    /\ run = 2 /\ args.copy /\ prev.exit_code = 0 /\ Finished
    /\ Len(unique_images) >= 2
    /\ Len(files) > Len(unique_images)
    /\ prev.placed[1].ok /\ prev.placed[1].dest = PhotoJpg
    /\ placed[1].ok /\ placed[1].dest = Renamed(PhotoJpg, 1)

====
